---------------------------- MODULE Spec2Model ----------------------------
(***************************************************************************)
(* Model of primesieve's ParallelPrimeSieve (ParallelPrimeSieve.cpp):      *)
(* thread-count planning, chunk alignment, the work-pulling worker loop,   *)
(* the merge of the per-thread counts and the status update.               *)
(*                                                                         *)
(* Scaling.  TLC integers are 32-bit, so uint64_t is modelled as a 30-bit  *)
(* unsigned word (UINT64_MAX = 2^30 - 1) and every operation that can wrap *)
(* in the source wraps here modulo 2^30.  config::MIN_THREAD_DISTANCE and  *)
(* config::MAX_THREAD_DISTANCE (1e7 and 2e10 in primesieve's config.hpp)   *)
(* are scaled with the word so that the orderings the planner depends on   *)
(* are kept:                                                               *)
(*    32 < MIN < isqrt(UINT64_MAX)/5,                                      *)
(*    MIN < MAX < isqrt(UINT64_MAX)*1000,   10*MAX < UINT64_MAX,           *)
(*    MIN % 30 = 10, MAX % 30 = 20 (as 1e7 and 2e10).                      *)
(* The wheel numbers 30 and 32 and the planner's factors 5 and 1000 are    *)
(* the source's own.                                                       *)
(***************************************************************************)
EXTENDS Integers, Sequences, FiniteSets, TLC

(***************************************************************************)
(* Program constants                                                       *)
(***************************************************************************)
UINT64_MAX == 1073741823

MIN_THREAD_DISTANCE == 1000

MAX_THREAD_DISTANCE == 20000000

\* hardware concurrency: upper bound of numThreads_ (getMaxThreads)
MaxThreads == 3

Workers == 1 .. MaxThreads

NoOwner == 0

Wrap(x) == x % (UINT64_MAX + 1)

(***************************************************************************)
(* pmath.hpp helpers                                                       *)
(***************************************************************************)
max(a, b) == IF a < b THEN b ELSE a

min(a, b) == IF b < a THEN b ELSE a

inBetween(lo, x, hi) == IF x < lo THEN lo ELSE IF x > hi THEN hi ELSE x

checkedAdd(a, b) == IF a >= UINT64_MAX - b THEN UINT64_MAX ELSE a + b

RECURSIVE isqrtBetween(_, _, _)
isqrtBetween(lo, hi, n) ==
  IF lo >= hi THEN lo
  ELSE LET mid == (lo + hi + 1) \div 2
       IN  IF mid * mid <= n THEN isqrtBetween(mid, hi, n)
           ELSE isqrtBetween(lo, mid - 1, n)

isqrt(n) == isqrtBetween(0, 32767, n)

(***************************************************************************)
(* The sequential engine PrimeSieve::sieve(start, stop), as the count of   *)
(* items lying in [start, stop].  Item kind k (Counters index k) is a      *)
(* group of wheel-30 candidates: single candidates for k = 0, and the      *)
(* twin .. sextuplet patterns for k = 1 .. 5.  A group is given by the     *)
(* residue of its least member and its span; it lies in [a, b] when its    *)
(* least member is >= a and its greatest member is <= b.                   *)
(***************************************************************************)
Kinds == 0 .. 5

Candidates == {1, 7, 11, 13, 17, 19, 23, 29}

\* offsets of the members of the patterns of kind k, from the least member
Patterns(k) ==
  CASE k = 0 -> {{0}}
    [] k = 1 -> {{0, 2}}
    [] k = 2 -> {{0, 2, 6}, {0, 4, 6}}
    [] k = 3 -> {{0, 2, 6, 8}}
    [] k = 4 -> {{0, 2, 6, 8, 12}, {0, 4, 6, 10, 12}}
    [] k = 5 -> {{0, 4, 6, 10, 12, 16}}

Span(k) == CASE k = 0 -> 0 [] k = 1 -> 2 [] k = 2 -> 6
             [] k = 3 -> 8 [] k = 4 -> 12 [] k = 5 -> 16

\* residues r of the least member of a group of kind k: r + o is a candidate
\* residue for every offset o of one of the patterns of kind k
Bases(k) ==
  CASE k = 0 -> Candidates
    [] k = 1 -> {11, 17, 29}
    [] k = 2 -> {7, 11, 13, 17}
    [] k = 3 -> {11}
    [] k = 4 -> {7, 11}
    [] k = 5 -> {7}

\* number of residues in Bases(k) that are <= r
BasesUpTo(k, r) ==
  CASE k = 0 -> (IF r >= 1 THEN 1 ELSE 0) + (IF r >= 7 THEN 1 ELSE 0)
                + (IF r >= 11 THEN 1 ELSE 0) + (IF r >= 13 THEN 1 ELSE 0)
                + (IF r >= 17 THEN 1 ELSE 0) + (IF r >= 19 THEN 1 ELSE 0)
                + (IF r >= 23 THEN 1 ELSE 0) + (IF r >= 29 THEN 1 ELSE 0)
    [] k = 1 -> (IF r >= 11 THEN 1 ELSE 0) + (IF r >= 17 THEN 1 ELSE 0)
                + (IF r >= 29 THEN 1 ELSE 0)
    [] k = 2 -> (IF r >= 7 THEN 1 ELSE 0) + (IF r >= 11 THEN 1 ELSE 0)
                + (IF r >= 13 THEN 1 ELSE 0) + (IF r >= 17 THEN 1 ELSE 0)
    [] k = 3 -> (IF r >= 11 THEN 1 ELSE 0)
    [] k = 4 -> (IF r >= 7 THEN 1 ELSE 0) + (IF r >= 11 THEN 1 ELSE 0)
    [] k = 5 -> (IF r >= 7 THEN 1 ELSE 0)

\* number of n in 0 .. x with n % 30 in Bases(k)  (0 when x < 0)
GroupsUpTo(k, x) ==
  IF x < 0 THEN 0
  ELSE (x \div 30) * BasesUpTo(k, 29) + BasesUpTo(k, x % 30)

CountItems(k, a, b) ==
  IF a > b - Span(k) THEN 0
  ELSE GroupsUpTo(k, b - Span(k)) - GroupsUpTo(k, a - 1)

EngineCounts(a, b) == [k \in Kinds |-> CountItems(k, a, b)]

ZeroCounts == [k \in Kinds |-> 0]

AddCounts(c, d) == [k \in Kinds |-> c[k] + d[k]]

(***************************************************************************)
(* State                                                                   *)
(***************************************************************************)
VARIABLES
  start_, stop_, numThreads_,  \* PrimeSieve / ParallelPrimeSieve members
  counts_,                     \* global Counters
  mpc,                         \* position of the thread running sieve()
  threads, threadDistance, iters, i, lock, pool,  \* locals of sieve()
  pc, start, stop, counts, idx,                   \* locals of each task
  chunks, claims, engineCalls,                    \* history of the run
  seconds_, processed_, percent_, lock_,          \* status members
  shm_, shmCounts, shmSeconds, shmStatus,         \* the bound SharedMemory
  upc, wait, processed, isSet, applied, result, updates,  \* updateStatus calls
  op, arg, ret                                    \* a planner function applied

runVars == <<threads, threadDistance, iters, i, lock, pool>>
taskVars == <<pc, start, stop, counts, idx>>
histVars == <<chunks, claims, engineCalls>>
memberVars == <<seconds_, processed_, percent_>>
shmVars == <<shm_, shmCounts, shmSeconds, shmStatus>>
callVars == <<lock_, upc, wait, processed, isSet, applied, result, updates>>
planVars == <<op, arg, ret>>
vars == <<start_, stop_, numThreads_, counts_, mpc, runVars, taskVars, histVars,
          memberVars, shmVars, callVars, planVars>>

(***************************************************************************)
(* The planner and the aligner                                             *)
(***************************************************************************)
\* PrimeSieve::getDistance(): stop_ - start_ in unsigned arithmetic
getDistance ==
  IF start_ <= stop_ THEN stop_ - start_
  ELSE stop_ - start_ + UINT64_MAX + 1

\* the lower limit MIN_THREAD_DISTANCE left out
threshold_NoMin == isqrt(stop_) \div 5

threshold == max(MIN_THREAD_DISTANCE, isqrt(stop_) \div 5)

\* the upper limit numThreads_ left out
idealNumThreads_Unbounded ==
  IF start_ > stop_ THEN 1
  ELSE max(1, getDistance \div threshold)

idealNumThreads ==
  IF start_ > stop_ THEN 1
  ELSE inBetween(1, getDistance \div threshold, numThreads_)

\* rounding down to a multiple of 30 instead of up
roundUp30_Down(td) == td - (td % 30)

\* threadDistance += 30 - threadDistance % 30
roundUp30(td) == Wrap(td + (30 - (td % 30)))

\* the fallback to the even split left out
getThreadDistance_NoFallback(t) ==
  LET unbalanced == getDistance \div t
      balanced == Wrap(isqrt(stop_) * 1000)
      fastest == min(balanced, unbalanced)
  IN  roundUp30(inBetween(MIN_THREAD_DISTANCE, fastest, MAX_THREAD_DISTANCE))

getThreadDistance(t) ==
  LET unbalanced == getDistance \div t
      balanced == Wrap(isqrt(stop_) * 1000)
      fastest == min(balanced, unbalanced)
      td == inBetween(MIN_THREAD_DISTANCE, fastest, MAX_THREAD_DISTANCE)
      nchunks == getDistance \div td
  IN  roundUp30(IF nchunks < t * 5
                THEN max(MIN_THREAD_DISTANCE, unbalanced)
                ELSE td)

\* the result not clipped to stop_
align_NoClip(n) == checkedAdd(n, 32) - (n % 30)

\* the remainder taken of n + 32 instead of n
align_Mod32(n) ==
  LET n32 == checkedAdd(n, 32)
  IN  IF n32 >= stop_ THEN stop_ ELSE n32 - (n32 % 30)

align(n) ==
  LET n32 == checkedAdd(n, 32)
  IN  IF n32 >= stop_ THEN stop_ ELSE n32 - (n % 30)

\* the quotient rounded down instead of up
numIters_Floor(td) == getDistance \div td

\* uint64_t iters = ((getDistance() - 1) / threadDistance) + 1
numIters(td) == Wrap(Wrap(getDistance + UINT64_MAX) \div td + 1)

\* the chunk a task sieves after it claimed the tentative start s
chunkStop(s) == align(checkedAdd(s, threadDistance))

\* the next chunk started at the stop of the one before, not one past it
chunkStart_NoPlusOne(s) == IF s > start_ THEN align(s) ELSE s

\* if (start > start_) start = align(start) + 1
chunkStart(s) == IF s > start_ THEN Wrap(align(s) + 1) ELSE s

(***************************************************************************)
(* Inputs                                                                  *)
(***************************************************************************)
\* distance that leaves the last of 11 chunks of length MAX + 10 one wide
LastChunkOne == 10 * (MAX_THREAD_DISTANCE + 10) + 1

\* ranges run with every configured number of threads
Ranges ==
  { <<10, 5>>, <<100, 100>>, <<0, 99>>, <<0, 4100>>, <<7, 2500>> }

\* ranges of many chunks, up to the top of the word, run with one or two
\* threads (with more the planner falls back to one chunk per thread, as it
\* does for the ranges above)
LongRanges ==
  { <<0, 100000500>>,
    <<UINT64_MAX - LastChunkOne, UINT64_MAX>>,
    <<UINT64_MAX - 1 - LastChunkOne, UINT64_MAX - 1>> }

\* <<start, stop, threads, whether init(shm) bound a SharedMemory>>
Inputs ==
  {<<r[1], r[2], n, b>> : r \in Ranges, n \in 1 .. MaxThreads, b \in BOOLEAN}
    \cup {<<r[1], r[2], n, TRUE>> : r \in LongRanges, n \in 1 .. 2}

\* wall-clock seconds a run may be measured to take
Elapsed == {1, 2}

\* counts_ as an earlier run of the same object may have left them
StaleCounts == [k \in Kinds |-> 6 - k]

\* no run of sieve() has started
NoRun ==
  /\ threads = 0 /\ threadDistance = 0 /\ iters = 0 /\ i = 0
  /\ lock = NoOwner /\ pool = 0
  /\ pc = [w \in Workers |-> "unborn"]
  /\ start = [w \in Workers |-> 0]
  /\ stop = [w \in Workers |-> 0]
  /\ counts = [w \in Workers |-> ZeroCounts]
  /\ idx = [w \in Workers |-> 0]
  /\ chunks = {}
  /\ claims = [j \in {} |-> 0]
  /\ engineCalls = 0

\* the object after construction (and init(shm), when a sink is bound),
\* about to run sieve() on the range in
Constructed(in) ==
  /\ start_ = in[1] /\ stop_ = in[2] /\ numThreads_ = in[3] /\ shm_ = in[4]
  /\ seconds_ = 0 /\ processed_ = 0 /\ percent_ = -1
  /\ shmCounts = StaleCounts /\ shmSeconds = 0 /\ shmStatus = -1
  /\ lock_ = NoOwner
  /\ upc = [w \in Workers |-> "idle"]
  /\ wait = [w \in Workers |-> FALSE]
  /\ processed = [w \in Workers |-> 0]
  /\ isSet = [w \in Workers |-> FALSE]
  /\ applied = [w \in Workers |-> FALSE]
  /\ result = [w \in Workers |-> FALSE]
  /\ updates = [w \in Workers |-> 0]
  /\ op = "none" /\ arg = 0 /\ ret = 0
  /\ NoRun

Init ==
  /\ \E in \in Inputs : Constructed(in)
  /\ counts_ \in {ZeroCounts, StaleCounts}
  /\ mpc = "call"

(***************************************************************************)
(* sieve(): the calling thread                                             *)
(***************************************************************************)
\* the early return of sieve() left out
EmptyRange_NoReturn == FALSE

EmptyRange == start_ > stop_

\* reset(); if (start_ > stop_) return;
Sieve_Reset ==
  /\ mpc = "call"
  /\ counts_' = ZeroCounts
  /\ seconds_' = 0 /\ processed_' = 0 /\ percent_' = -1
  /\ mpc' = IF EmptyRange THEN "done" ELSE "plan"
  /\ UNCHANGED <<shmVars, callVars, planVars>>
  /\ UNCHANGED <<start_, stop_, numThreads_, runVars, taskVars, histVars>>

\* threads == 1: PrimeSieve::sieve() on [start_, stop_]
Sieve_Single ==
  /\ mpc = "plan"
  /\ idealNumThreads = 1
  /\ threads' = 1
  /\ counts_' = EngineCounts(start_, stop_)
  /\ engineCalls' = engineCalls + 1
  /\ chunks' = chunks \cup {<<0, start_, stop_>>}
  /\ seconds_' \in Elapsed
  /\ mpc' = "finish"
  /\ UNCHANGED <<processed_, percent_, shmVars, callVars, planVars>>
  /\ UNCHANGED <<start_, stop_, numThreads_, threadDistance, iters, i, lock,
                 pool, taskVars, claims>>

\* threads > 1: threadDistance, iters, i, threads
Sieve_Plan ==
  /\ mpc = "plan"
  /\ idealNumThreads # 1
  /\ LET td == getThreadDistance(idealNumThreads)
         n == numIters(td)
     IN  /\ threadDistance' = td
         /\ iters' = n
         /\ threads' = inBetween(1, idealNumThreads, n)
         /\ claims' = [j \in 0 .. n - 1 |-> 0]
  /\ i' = 0
  /\ lock' = NoOwner
  /\ mpc' = "spawn"
  /\ UNCHANGED <<memberVars, shmVars, callVars, planVars>>
  /\ UNCHANGED <<start_, stop_, numThreads_, counts_, pool, taskVars,
                 chunks, engineCalls>>

\* the spawn loop left one thread early
SpawnMore_OneLess == pool < threads - 1

\* for (int t = 0; t < threads; t++)
SpawnMore == pool < threads

\* pool.emplace_back(task): the new thread starts with counts(6, 0)
Sieve_Spawn ==
  /\ mpc = "spawn"
  /\ IF SpawnMore
     THEN /\ pool' = pool + 1
          /\ pc' = [pc EXCEPT ![pool + 1] = "loop"]
          /\ counts' = [counts EXCEPT ![pool + 1] = ZeroCounts]
          /\ mpc' = mpc
     ELSE /\ mpc' = "join"
          /\ UNCHANGED <<pool, pc, counts>>
  /\ UNCHANGED <<memberVars, shmVars, callVars, planVars>>
  /\ UNCHANGED <<start_, stop_, numThreads_, counts_, threads, threadDistance,
                 iters, i, lock, start, stop, idx, histVars>>

\* for (thread &t : pool) t.join();  seconds_ = seconds.count();
Sieve_Join ==
  /\ mpc = "join"
  /\ \A w \in 1 .. pool : pc[w] = "done"
  /\ seconds_' \in Elapsed
  /\ mpc' = "finish"
  /\ UNCHANGED <<processed_, percent_, shmVars, callVars, planVars>>
  /\ UNCHANGED <<start_, stop_, numThreads_, counts_, runVars, taskVars,
                 histVars>>

\* if (shm_) { copy(counts_ ..., shm_->counts); shm_->seconds = seconds_; }
Sieve_Finish ==
  /\ mpc = "finish"
  /\ IF shm_
     THEN shmCounts' = counts_ /\ shmSeconds' = seconds_
     ELSE UNCHANGED <<shmCounts, shmSeconds>>
  /\ mpc' = "done"
  /\ UNCHANGED <<memberVars, shm_, shmStatus, callVars, planVars>>
  /\ UNCHANGED <<start_, stop_, numThreads_, counts_, runVars, taskVars,
                 histVars>>

(***************************************************************************)
(* The task run by every thread of the pool                                *)
(***************************************************************************)
\* the guard left out: a task proceeds whoever holds the lock
CanLock_Unguarded(w) == TRUE

\* lock_guard<mutex> guard(lock) can be constructed
CanLock(w) == lock = NoOwner

\* an off-by-one loop exit
LoopExit_OffByOne == i > iters

\* if (i >= iters) break;
LoopExit == i >= iters

\* auto start = start_; { lock_guard<mutex> guard(lock);
\* if (i >= iters) break;  start += i * threadDistance;
Task_Claim(w) ==
  /\ pc[w] = "loop"
  /\ CanLock(w)
  /\ IF LoopExit
     THEN /\ pc' = [pc EXCEPT ![w] = "exit"]
          /\ UNCHANGED <<lock, start, idx, claims>>
     ELSE /\ lock' = w
          /\ start' = [start EXCEPT ![w] = Wrap(start_ + Wrap(i * threadDistance))]
          /\ idx' = [idx EXCEPT ![w] = i]
          /\ claims' = [j \in DOMAIN claims \cup {i} |->
                          IF j = i
                          THEN (IF i \in DOMAIN claims THEN claims[i] ELSE 0) + 1
                          ELSE claims[j]]
          /\ pc' = [pc EXCEPT ![w] = "incr"]
  /\ UNCHANGED <<memberVars, shmVars, callVars, planVars>>
  /\ UNCHANGED <<start_, stop_, numThreads_, counts_, mpc, threads,
                 threadDistance, iters, i, pool, stop, counts, chunks,
                 engineCalls>>

\* the mutex kept locked past the guard's scope
GuardEnds_Kept(w) == lock

\* } the lock_guard is destroyed: the mutex it holds is unlocked
GuardEnds(w) == IF lock = w THEN NoOwner ELSE lock

\* i += 1; }  the guard's scope ends
Task_Incr(w) ==
  /\ pc[w] = "incr"
  /\ i' = Wrap(i + 1)
  /\ lock' = GuardEnds(w)
  /\ pc' = [pc EXCEPT ![w] = "sieve"]
  /\ UNCHANGED <<memberVars, shmVars, callVars, planVars>>
  /\ UNCHANGED <<start_, stop_, numThreads_, counts_, mpc, threads,
                 threadDistance, iters, pool, start, stop, counts, idx,
                 histVars>>

\* stop = align(checkedAdd(start, threadDistance));
\* if (start > start_) start = align(start) + 1;
\* ps.sieve(start, stop); counts += ps.counts_;
Task_Sieve(w) ==
  /\ pc[w] = "sieve"
  /\ upc[w] = "idle"
  /\ LET a == chunkStart(start[w])
         b == chunkStop(start[w])
     IN  /\ start' = [start EXCEPT ![w] = a]
         /\ stop' = [stop EXCEPT ![w] = b]
         /\ counts' = [counts EXCEPT ![w] = AddCounts(@, EngineCounts(a, b))]
         /\ chunks' = chunks \cup {<<idx[w], a, b>>}
  /\ engineCalls' = engineCalls + 1
  /\ pc' = [pc EXCEPT ![w] = "loop"]
  /\ UNCHANGED <<memberVars, shmVars, callVars, planVars>>
  /\ UNCHANGED <<start_, stop_, numThreads_, counts_, mpc, runVars, idx,
                 claims>>

\* lock_guard<mutex> guard(lock);  after the loop
Task_MergeLock(w) ==
  /\ pc[w] = "exit"
  /\ CanLock(w)
  /\ lock' = w
  /\ pc' = [pc EXCEPT ![w] = "merge"]
  /\ UNCHANGED <<memberVars, shmVars, callVars, planVars>>
  /\ UNCHANGED <<start_, stop_, numThreads_, counts_, mpc, threads,
                 threadDistance, iters, i, pool, start, stop, counts, idx,
                 histVars>>

\* counts_ += counts;  and the task returns
Task_Merge(w) ==
  /\ pc[w] = "merge"
  /\ counts_' = AddCounts(counts_, counts[w])
  /\ lock' = IF lock = w THEN NoOwner ELSE lock
  /\ pc' = [pc EXCEPT ![w] = "done"]
  /\ UNCHANGED <<memberVars, shmVars, callVars, planVars>>
  /\ UNCHANGED <<start_, stop_, numThreads_, mpc, threads, threadDistance,
                 iters, i, pool, start, stop, counts, idx, histVars>>

Task(w) ==
  \/ Task_Claim(w)
  \/ Task_Incr(w)
  \/ Task_Sieve(w)
  \/ Task_MergeLock(w)
  \/ Task_Merge(w)

\* sieve() on the multi-threaded path
MainPool ==
  \/ Sieve_Reset
  \/ Sieve_Plan
  \/ Sieve_Spawn
  \/ Sieve_Join
  \/ Sieve_Finish

Main == MainPool \/ Sieve_Single

Next == Main \/ \E w \in Workers : Task(w)

Spec == Init /\ [][Next]_vars

\* runs with a sink bound, on a freshly constructed object
FairInit ==
  /\ \E in \in Inputs : in[4] /\ Constructed(in)
  /\ counts_ = ZeroCounts
  /\ mpc = "call"

\* the scheduler runs every thread that can take a step, and a free mutex
\* is acquired by a thread that keeps waiting for it
FairSpec ==
  /\ FairInit
  /\ [][Next]_vars
  /\ WF_vars(Main)
  /\ \A w \in Workers : WF_vars(Task(w))

(***************************************************************************)
(* updateStatus(processed, wait), called by the engine of a task while it  *)
(* sieves its chunk (runs with the status flag set)                        *)
(***************************************************************************)
\* status reports the engine of one task makes at most in a run
MaxUpdates == 1

\* the segment sizes an engine reports
Segments == {300, 700}

\* the update applied even though the lock was not acquired
Applies_Always(w) == TRUE

\* if (lock.isSet())
Applies(w) == isSet[w]

\* PrimeSieve::getStatus() after PrimeSieve::updateStatus(p)
percentAfter(total) ==
  IF getDistance > 0 THEN min((total * 100) \div getDistance, 100) ELSE 100

\* LockGuard(lock_, wait) returns: at once after try_lock() when wait is
\* false, after lock() has acquired lock_ when wait is true
LockGuard_Returns(b) == lock_ = NoOwner \/ ~b

\* lock.isSet() of the LockGuard just constructed
LockGuard_isSet == lock_ = NoOwner

\* LockGuard lock(lock_, wait);
Status_Enter(w) ==
  /\ pc[w] = "sieve"
  /\ upc[w] = "idle"
  /\ updates[w] < MaxUpdates
  /\ applied' = [applied EXCEPT ![w] = FALSE]
  /\ upc' = [upc EXCEPT ![w] = "guarded"]
  /\ \E p \in Segments, b \in BOOLEAN :
       /\ processed' = [processed EXCEPT ![w] = p]
       /\ wait' = [wait EXCEPT ![w] = b]
       /\ LockGuard_Returns(b)
       /\ isSet' = [isSet EXCEPT ![w] = LockGuard_isSet]
       /\ lock_' = IF LockGuard_isSet THEN w ELSE lock_
  /\ UNCHANGED <<start_, stop_, numThreads_, counts_, mpc, runVars, taskVars,
                 histVars, memberVars, shmVars, result, updates, planVars>>

\* if (lock.isSet()) { PrimeSieve::updateStatus(processed);
\*                     if (shm_) shm_->status = getStatus(); }
Status_Apply(w) ==
  /\ upc[w] = "guarded"
  /\ IF Applies(w)
     THEN /\ processed_' = processed_ + processed[w]
          /\ percent_' = percentAfter(processed_ + processed[w])
          /\ shmStatus' = IF shm_ THEN percentAfter(processed_ + processed[w])
                          ELSE shmStatus
          /\ applied' = [applied EXCEPT ![w] = TRUE]
     ELSE UNCHANGED <<processed_, percent_, shmStatus, applied>>
  /\ upc' = [upc EXCEPT ![w] = "leave"]
  /\ UNCHANGED <<start_, stop_, numThreads_, counts_, mpc, runVars, taskVars,
                 histVars, seconds_, shm_, shmCounts, shmSeconds, lock_, wait,
                 processed, isSet, result, updates, planVars>>

\* return lock.isSet();  ~LockGuard releases a lock that was set, and the
\* call's locals are gone
Status_Return(w) ==
  /\ upc[w] = "leave"
  /\ result' = [result EXCEPT ![w] = isSet[w]]
  /\ lock_' = IF isSet[w] /\ lock_ = w THEN NoOwner ELSE lock_
  /\ updates' = [updates EXCEPT ![w] = @ + 1]
  /\ wait' = [wait EXCEPT ![w] = FALSE]
  /\ processed' = [processed EXCEPT ![w] = 0]
  /\ isSet' = [isSet EXCEPT ![w] = FALSE]
  /\ applied' = [applied EXCEPT ![w] = FALSE]
  /\ upc' = [upc EXCEPT ![w] = "idle"]
  /\ UNCHANGED <<start_, stop_, numThreads_, counts_, mpc, runVars, taskVars,
                 histVars, memberVars, shmVars, planVars>>

Status(w) == Status_Enter(w) \/ Status_Apply(w) \/ Status_Return(w)

\* a range of two chunks for two threads
StatusInputs ==
  {<<7, 2500, n, b>> : n \in 2 .. MaxThreads, b \in BOOLEAN}

StatusInit ==
  /\ \E in \in StatusInputs : Constructed(in)
  /\ counts_ = ZeroCounts
  /\ mpc = "call"

StatusNext == MainPool \/ \E w \in Workers : Task(w) \/ Status(w)

StatusSpec == StatusInit /\ [][StatusNext]_vars

(***************************************************************************)
(* The planner's functions applied to a grid of ranges and thread counts   *)
(***************************************************************************)
\* how far around each grid value the distances are taken
GridSlack == 1

Decades == {1, 10, 100, 1000, 10000, 100000, 1000000, 10000000, 100000000}

Grid ==
  {0, 1000000000, UINT64_MAX - 1, UINT64_MAX}
    \cup {m * d : m \in {1, 2, 4, 5, 7}, d \in Decades}

Distances ==
  {d \in {g + e : g \in Grid, e \in (0 - GridSlack) .. GridSlack} :
     0 <= d /\ d <= UINT64_MAX}

\* <<stop, distance>>
PlanRanges == {r \in Grid \X Distances : r[2] <= r[1]}

PlanInputs ==
  {<<r[1] - r[2], r[1], n, FALSE>> : r \in PlanRanges, n \in 1 .. MaxThreads}
    \cup {<<b + 1, b, n, FALSE>> : b \in {0, 5, 1000000000}, n \in 1 .. MaxThreads}

PlanInit ==
  /\ \E in \in PlanInputs : Constructed(in)
  /\ counts_ = ZeroCounts
  /\ mpc = "planner"

Call_idealNumThreads ==
  /\ mpc = "planner"
  /\ op' = "idealNumThreads"
  /\ arg' = 0
  /\ ret' = idealNumThreads
  /\ UNCHANGED <<start_, stop_, numThreads_, counts_, mpc, runVars, taskVars,
                 histVars, memberVars, shmVars, callVars>>

\* assert(threads > 0); sieve() calls it with start_ <= stop_
Call_getThreadDistance ==
  /\ mpc = "planner"
  /\ start_ <= stop_
  /\ \E t \in 1 .. MaxThreads :
       /\ op' = "getThreadDistance"
       /\ arg' = t
       /\ ret' = getThreadDistance(t)
  /\ UNCHANGED <<start_, stop_, numThreads_, counts_, mpc, runVars, taskVars,
                 histVars, memberVars, shmVars, callVars>>

PlanNext == Call_idealNumThreads \/ Call_getThreadDistance

PlanSpec == PlanInit /\ [][PlanNext]_vars

(***************************************************************************)
(* align(n) applied to boundaries around 0, stop_ and the top of the word, *)
(* next to the runs of sieve() that call it                                *)
(***************************************************************************)
\* how far around 0, stop_ and UINT64_MAX the arguments are taken
AlignSlack == 40

AlignArgs ==
  {n \in {g + e : g \in {0, stop_, UINT64_MAX},
                  e \in (0 - AlignSlack) .. AlignSlack} :
     0 <= n /\ n <= UINT64_MAX}

AlignInit ==
  /\ \E in \in Inputs : Constructed(in)
  /\ counts_ = ZeroCounts
  /\ mpc \in {"call", "aligner"}

Call_align ==
  /\ mpc = "aligner"
  /\ \E n \in AlignArgs :
       /\ op' = "align"
       /\ arg' = n
       /\ ret' = align(n)
  /\ UNCHANGED <<start_, stop_, numThreads_, counts_, mpc, runVars, taskVars,
                 histVars, memberVars, shmVars, callVars>>

AlignNext == Next \/ Call_align

AlignSpec == AlignInit /\ [][AlignNext]_vars

(***************************************************************************)
(* Claims                                                                  *)
(***************************************************************************)
MultiThreaded == threads >= 2

\* C1: when sieve() has returned on the multi-threaded path, the Counters
\* equal those of one engine call on [start_, stop_], whatever the
\* interleaving of the workers and the configured number of threads.
C1_Aggregation ==
  (mpc = "done" /\ MultiThreaded) => counts_ = EngineCounts(start_, stop_)

\* every chunk of the run has been handed to the engine
AllSieved == mpc \in {"finish", "done"} /\ MultiThreaded

ChunksOf(j) == {c \in chunks : c[1] = j}

ChunkOf(j) == CHOOSE c \in chunks : c[1] = j

\* number of processed chunks whose range chunkStart .. chunkStop holds n
CoverCount(n) == Cardinality({c \in chunks : c[2] <= n /\ n <= c[3]})

\* the ends of every chunk and their neighbours: a gap or an overlap of the
\* chunks within [start_, stop_] has one of these points in it
EdgePoints ==
  {n \in {start_, stop_} \cup UNION {{c[2] - 1, c[2], c[3], c[3] + 1} : c \in chunks} :
     start_ <= n /\ n <= stop_}

\* C2: on the multi-threaded path every integer of [start_, stop_] lies in
\* exactly one processed chunk: chunk 0 starts at start_, chunk j + 1 starts
\* one past the stop of chunk j, and the last chunk stops at stop_.
C2_Coverage ==
  AllSieved =>
    /\ \A j \in 0 .. iters - 1 : Cardinality(ChunksOf(j)) = 1
    /\ ChunkOf(0)[2] = start_
    /\ ChunkOf(iters - 1)[3] = stop_
    /\ \A j \in 0 .. iters - 2 : ChunkOf(j + 1)[2] = ChunkOf(j)[3] + 1
    /\ \A n \in EdgePoints : CoverCount(n) = 1

\* a group of kind k with least member n: all its members are candidates
IsGroup(k, n) ==
  \E p \in Patterns(k) : \A o \in p : ((n + o) % 30) \in Candidates

\* some group has a member <= b and a member >= b + 1
Splits(b) ==
  \E k \in 1 .. 5 : \E d \in 0 .. Span(k) - 1 :
     b - d >= 0 /\ IsGroup(k, b - d)

\* no chunk stop other than the global stop splits a group
NoSplit == \A c \in chunks : c[3] # stop_ => ~Splits(c[3])

\* C3: no constellation is split by a chunk boundary, so the constellation
\* counts (indices 1 .. 5) of a chunked run equal those of a sequential run.
C3_BoundarySafety ==
  /\ NoSplit
  /\ (mpc = "done" /\ MultiThreaded) =>
        \A k \in 1 .. 5 : counts_[k] = CountItems(k, start_, stop_)

\* C4: every chunk index below iters is claimed exactly once, by one worker,
\* and no index >= iters is ever claimed.
C4_ClaimedOnce ==
  /\ \A j \in DOMAIN claims : claims[j] <= 1 /\ (claims[j] = 1 => j < iters)
  /\ AllSieved => \A j \in 0 .. iters - 1 : claims[j] = 1

C4_Witness ==
  /\ mpc = "done" /\ iters > threads
  /\ \E v, w \in 1 .. pool : v # w /\ counts[v][0] > 0 /\ counts[w][0] > 0

\* C6: when start_ > stop_, sieve() returns with all Counters zero, no
\* thread spawned and no engine call made.
C6_EmptyRange ==
  (start_ > stop_ /\ mpc # "call") =>
    /\ mpc = "done"
    /\ counts_ = ZeroCounts
    /\ pool = 0 /\ \A w \in Workers : pc[w] = "unborn"
    /\ engineCalls = 0

C6_Witness == start_ > stop_ /\ mpc = "done" /\ counts_ = ZeroCounts

\* C5: under fair scheduling a run completes: every worker leaves its loop,
\* merges and is joined, sieve() returns, and then i = iters.
C5_Completes ==
  <>(/\ mpc = "done"
     /\ MultiThreaded => (i = iters /\ \A w \in 1 .. pool : pc[w] = "done"))

C5_Witness ==
  /\ mpc = "done" /\ MultiThreaded /\ i = iters /\ iters > threads
  /\ \A w \in 1 .. pool : pc[w] = "done" /\ counts[w][0] > 0

\* C7 as stated: getThreadDistance(threads) is a positive multiple of 30
\* within [MIN_THREAD_DISTANCE, MAX_THREAD_DISTANCE].
C7_WithinMinMax ==
  op = "getThreadDistance" =>
    /\ ret > 0 /\ ret % 30 = 0
    /\ MIN_THREAD_DISTANCE <= ret /\ ret <= MAX_THREAD_DISTANCE

\* C7 amended: when distance / threads <= UINT64_MAX - 30 (always so for
\* threads >= 2), getThreadDistance(threads) is a positive multiple of 30,
\* greater than MIN_THREAD_DISTANCE and at most
\* max(MAX_THREAD_DISTANCE, distance / threads) + 30.
C7_ThreadDistance ==
  (op = "getThreadDistance" /\ (stop_ - start_) \div arg <= UINT64_MAX - 30) =>
    /\ ret > 0 /\ ret % 30 = 0
    /\ MIN_THREAD_DISTANCE < ret
    /\ ret <= max(MAX_THREAD_DISTANCE, (stop_ - start_) \div arg) + 30

\* the fallback branch returned more than MAX_THREAD_DISTANCE + 30
C7_Witness ==
  /\ op = "getThreadDistance" /\ arg >= 2
  /\ ret > MAX_THREAD_DISTANCE + 30 /\ ret % 30 = 0

\* C8: idealNumThreads() is clamp(distance / threshold, 1, numThreads_) with
\* threshold = max(MIN_THREAD_DISTANCE, isqrt(stop_) / 5); it is 1 whenever
\* distance < threshold and always lies in [1, numThreads_].
C8_IdealNumThreads ==
  op = "idealNumThreads" =>
    LET limit == IF isqrt(stop_) \div 5 > MIN_THREAD_DISTANCE
                 THEN isqrt(stop_) \div 5 ELSE MIN_THREAD_DISTANCE
        quot == IF stop_ < start_ THEN 0 ELSE (stop_ - start_) \div limit
    IN  /\ ret = (IF quot < 1 THEN 1
                  ELSE IF quot > numThreads_ THEN numThreads_ ELSE quot)
        /\ (stop_ - start_ < limit => ret = 1)
        /\ 1 <= ret /\ ret <= numThreads_

C8_Witness ==
  /\ op = "idealNumThreads" /\ 1 < ret /\ ret < numThreads_
  /\ isqrt(stop_) \div 5 > MIN_THREAD_DISTANCE

\* C9: no boundary computation wraps: every chunk handed to the engine has
\* chunkStart >= start_ and chunkStop <= stop_, up to stop_ = UINT64_MAX.
C9_NoWrap ==
  \A c \in chunks : c[2] >= start_ /\ c[3] <= stop_

\* a call of updateStatus by task w is past its LockGuard
InCall(w) == upc[w] \in {"guarded", "leave"}

\* C10: updateStatus(processed, wait = false) called while the status lock is
\* held returns false and changes nothing; updateStatus returns true exactly
\* when it acquired the lock and applied the update; with wait = true it
\* does not go on before it holds the lock.
C10_UpdateStatus ==
  /\ [](\A w \in Workers : InCall(w) =>
          /\ isSet[w] <=> lock_ = w
          /\ wait[w] => isSet[w]
          /\ applied[w] => isSet[w])
  /\ [][\A w \in Workers :
          /\ (InCall(w) /\ ~isSet[w] /\ upc'[w] # upc[w]) =>
                UNCHANGED <<processed_, percent_, shmStatus, lock_>>
          /\ (upc[w] = "idle" /\ upc'[w] = "guarded" /\ lock_ # NoOwner) =>
                /\ ~wait'[w] /\ ~isSet'[w]
                /\ UNCHANGED <<processed_, percent_, shmStatus, lock_>>
          /\ (upc[w] = "leave" /\ upc'[w] = "idle") =>
                /\ result'[w] = applied[w]
                /\ ~result'[w] =>
                     UNCHANGED <<processed_, percent_, shmStatus, lock_>>]_vars

\* a non-blocking call has returned false after an update was published
C10_Witness ==
  \E w \in Workers :
    /\ upc[w] = "idle" /\ updates[w] > 0 /\ ~result[w]
    /\ shm_ /\ processed_ > 0 /\ shmStatus >= 0

\* C11: whenever sieve() has returned with a SharedMemory bound, the sink's
\* counts equal the Counters and the sink's seconds equal seconds_, for
\* every range: start_ > stop_ and the single-thread path included.
C11_SinkFinalized ==
  (mpc = "done" /\ shm_) => (shmCounts = counts_ /\ shmSeconds = seconds_)

\* C12: align(n) returns stop_ whenever the saturating sum n + 32 is
\* >= stop_; otherwise its result is congruent to 2 modulo 30, less than
\* stop_ and within [n + 3, n + 32].  Hence every chunk stop other than
\* stop_ is congruent to 2 modulo 30.
C12_Align ==
  /\ op = "align" =>
       LET sum == IF arg + 32 > UINT64_MAX THEN UINT64_MAX ELSE arg + 32
       IN  IF sum >= stop_ THEN ret = stop_
           ELSE /\ ret % 30 = 2
                /\ ret < stop_
                /\ arg + 3 <= ret /\ ret <= arg + 32
  /\ \A c \in chunks : c[3] # stop_ => c[3] % 30 = 2

\* align moved its argument by the least amount, 3
C12_Witness ==
  /\ op = "align" /\ arg + 32 < stop_ /\ arg % 30 = 29
  /\ ret = arg + 3 /\ ret % 30 = 2

\* C13 as stated: for every n with n + 32 < stop_, align(n) returns
\* (n + 32) - ((n + 32) mod 30).
C13_AlignMod32 ==
  (op = "align" /\ arg + 32 < stop_) => ret = (arg + 32) - ((arg + 32) % 30)

\* C13 amended: for every n with n + 32 < stop_, align(n) returns
\* (n + 32) - (n mod 30), the only value congruent to 2 modulo 30 in
\* [n + 3, n + 32].
C13_AlignMod30 ==
  (op = "align" /\ arg + 32 < stop_) =>
    /\ ret = (arg + 32) - (arg % 30)
    /\ \A v \in arg + 3 .. arg + 32 : v % 30 = 2 <=> v = ret

C13_Witness ==
  /\ op = "align" /\ arg + 32 < stop_ /\ arg % 30 = 7
  /\ ret = arg + 25 /\ ret # (arg + 32) - ((arg + 32) % 30)

\* number of processed chunks whose half-open range
\* chunkStart .. chunkStop - 1 holds n
HalfOpenCount(n) == Cardinality({c \in chunks : c[2] <= n /\ n < c[3]})

C15_LockNotHeldSieving ==
  /\ \A w \in Workers : pc[w] = "sieve" => lock # w
  /\ lock # NoOwner => (lock \in 1 .. pool /\ pc[lock] \in {"incr", "merge"})
  /\ \A w \in Workers : pc[w] \in {"incr", "merge"} => lock = w

\* one worker is in the engine call while another holds the lock to claim
C15_Witness ==
  \E v, w \in 1 .. pool :
    v # w /\ pc[w] = "sieve" /\ pc[v] = "incr" /\ lock = v

\* element-wise sum of the accumulators of the workers 1 .. w that have
\* merged
RECURSIVE MergedUpTo(_)
MergedUpTo(w) ==
  IF w = 0 THEN ZeroCounts
  ELSE AddCounts(MergedUpTo(w - 1),
                 IF pc[w] = "done" THEN counts[w] ELSE ZeroCounts)

\* C16: the Counters are zero at run start and are written only by a worker
\* holding the lock; each worker adds its accumulator once, after its loop
\* has exited.  So the Counters always equal the sum of the accumulators of
\* the workers that have merged, and no two merges interleave.
C16_MergeOnce ==
  /\ []((mpc # "call" /\ threads # 1) =>
          /\ counts_ = MergedUpTo(MaxThreads)
          /\ Cardinality({w \in Workers : pc[w] = "merge"}) <= 1)
  /\ [][/\ counts_' # counts_ =>
             \/ mpc = "call"
             \/ mpc = "plan" /\ mpc' = "finish" /\ pool = 0
             \/ \E w \in 1 .. pool :
                  /\ pc[w] = "merge" /\ pc'[w] = "done" /\ lock = w
                  /\ counts_' = AddCounts(counts_, counts[w])
        /\ \A w \in Workers :
             /\ pc[w] = "done" => (pc'[w] = "done" /\ counts'[w] = counts[w])
             /\ (pc'[w] = "merge" /\ pc[w] # "merge") =>
                  (pc[w] = "exit" /\ i >= iters)]_vars

\* one worker has merged its counts and another holds the lock to merge
C16_Witness ==
  \E v, w \in 1 .. pool :
    /\ v # w /\ pc[v] = "done" /\ pc[w] = "merge" /\ lock = w
    /\ counts[v][0] > 0 /\ counts[w][0] > 0 /\ counts_ = counts[v]

\* C17: on the multi-threaded path the number of worker threads spawned is
\* min(threads, iters) for the planner's thread count threads: at least 1,
\* at most numThreads_ and at most the number of chunks iters.
C17_ThreadsSpawned ==
  /\ Cardinality({w \in Workers : pc[w] # "unborn"}) = pool
  /\ (mpc \in {"join", "finish", "done"} /\ iters > 0) =>
       /\ pool = (IF idealNumThreads < iters THEN idealNumThreads ELSE iters)
       /\ pool = threads
       /\ 1 <= pool /\ pool <= numThreads_ /\ pool <= iters

\* as many threads as chunks, fewer than configured
C17_Witness ==
  /\ mpc = "done" /\ iters > 0
  /\ pool >= 2 /\ pool = iters /\ pool < numThreads_
  /\ \A w \in 1 .. pool : pc[w] = "done"

\* getThreadDistance(arg) takes its fallback branch:
\* distance / threadDistance < threads * 5 for the clamped threadDistance
TookFallback ==
  LET quot == (stop_ - start_) \div arg
      bal == isqrt(stop_) * 1000
      fast == IF bal < quot THEN bal ELSE quot
      clamped == IF fast < MIN_THREAD_DISTANCE THEN MIN_THREAD_DISTANCE
                 ELSE IF fast > MAX_THREAD_DISTANCE THEN MAX_THREAD_DISTANCE
                 ELSE fast
  IN  (stop_ - start_) \div clamped < arg * 5

\* ceil(distance / ret)
CeilChunks == ((stop_ - start_) + ret - 1) \div ret

\* C18: when getThreadDistance(threads) takes its fallback branch, the
\* returned chunk length yields at most one chunk per thread:
\* iters = ceil(distance / threadDistance) <= threads.
C18_FallbackChunks ==
  (op = "getThreadDistance" /\ TookFallback) =>
    /\ CeilChunks <= arg
    /\ stop_ - start_ > 0 => numIters(ret) = CeilChunks

\* the fallback returned more than MAX_THREAD_DISTANCE, one chunk per thread
C18_Witness ==
  /\ op = "getThreadDistance" /\ TookFallback /\ arg >= 2
  /\ ret > MAX_THREAD_DISTANCE /\ CeilChunks = arg
  /\ numIters(ret) = arg

\* start_ <= stop_ and the planner decides for one thread: fewer than two
\* thresholds fit into the distance, or one thread is configured
OneThreadIdeal ==
  LET limit == IF isqrt(stop_) \div 5 > MIN_THREAD_DISTANCE
               THEN isqrt(stop_) \div 5 ELSE MIN_THREAD_DISTANCE
  IN  /\ start_ <= stop_
      /\ (stop_ - start_) \div limit < 2 \/ numThreads_ = 1

\* C19: whenever start_ <= stop_ and idealNumThreads() is 1 (start_ = stop_
\* included), sieve() makes exactly one engine call, on [start_, stop_],
\* spawns no worker thread and never touches the chunk index or the lock.
C19_SingleThread ==
  OneThreadIdeal =>
    /\ mpc \in {"call", "plan", "finish", "done"}
    /\ pool = 0 /\ \A w \in Workers : pc[w] = "unborn"
    /\ i = 0 /\ iters = 0 /\ lock = NoOwner /\ DOMAIN claims = {}
    /\ engineCalls = (IF mpc \in {"finish", "done"} THEN 1 ELSE 0)
    /\ mpc \in {"finish", "done"} =>
         /\ chunks = {<<0, start_, stop_>>}
         /\ counts_ = EngineCounts(start_, stop_)

\* start_ = stop_ with several threads configured: one engine call, no count
C19_Witness ==
  /\ start_ = stop_ /\ numThreads_ > 1 /\ mpc = "done"
  /\ engineCalls = 1 /\ chunks = {<<0, start_, stop_>>}
  /\ counts_ = ZeroCounts /\ pool = 0

\* sieve() has taken the multi-threaded path and set up its locals
PoolPlanned ==
  start_ <= stop_ /\ ~OneThreadIdeal /\ mpc \notin {"call", "plan"}

\* C20: whenever the multi-threaded path is taken, distance = stop_ - start_
\* is at least 2 * MIN_THREAD_DISTANCE, so (distance - 1) / threadDistance + 1
\* does not underflow and iters = ceil(distance / threadDistance) >= 1; and
\* every tentative chunk start start_ + i * threadDistance with i < iters is
\* less than stop_, with no wrap in i * threadDistance.
C20_ItersNoUnderflow ==
  PoolPlanned =>
    LET dist == stop_ - start_
    IN  /\ dist >= 2 * MIN_THREAD_DISTANCE
        /\ threadDistance > 0
        /\ iters = (dist + threadDistance - 1) \div threadDistance
        /\ iters >= 1
        /\ \A j \in 0 .. iters - 1 :
             /\ j * threadDistance <= UINT64_MAX
             /\ start_ + j * threadDistance < stop_
        /\ \A w \in Workers : pc[w] \in {"incr", "sieve"} =>
             /\ idx[w] < iters
             /\ start[w] = start_ + idx[w] * threadDistance
             /\ start[w] < stop_

\* a worker has claimed the last chunk, whose tentative start is stop_ - 1
C20_Witness ==
  /\ PoolPlanned /\ iters >= 3
  /\ \E w \in 1 .. pool :
       /\ pc[w] = "sieve" /\ idx[w] = iters - 1
       /\ start[w] = stop_ - 1

============================================================================
